---- MODULE Spec2Model ----
(***************************************************************************)
(* A model of the emotion detector web application (app.py, helpers.py).   *)
(* One browser session talks to the Flask application; every route is one  *)
(* action.  Strings that the code inspects character by character          *)
(* (uploaded file names) are sequences of one-character strings; strings   *)
(* the code only compares as a whole (credentials, messages) are strings.  *)
(* Confidence scores are fixed-point numbers in hundredths of a percent    *)
(* (8734 is 87.34 %).                                                      *)
(***************************************************************************)
EXTENDS Integers, Sequences, FiniteSets, TLC

VARIABLES
    session,      \* flask.session: a dict with keys among username, emotion_history
    tempFiles,    \* the files present in tempfile.gettempdir()
    req,          \* the request handled last
    resp,         \* the response returned to it
    temp_path,    \* process_emotion's local temp_path when it returned
    trace,        \* what the handler did for the last request: adapter calls made,
                  \* the detection result, the outcome of os.remove
    appended,     \* history variable: entries appended since the last login or clear
    cleared       \* history variable: the number of entries the last clear-history
                  \* dropped, while only get-history requests followed it; else -1

vars == <<session, tempFiles, req, resp, temp_path, trace, appended, cleared>>

----------------------------------------------------------------------------
(* Bounds and input domains *)

\* The longest history explored: process_emotion is not taken beyond it.
MaxHist == 2

None == "None"

EmptyDict == [k \in {} |-> None]

\* Python's d[k] = v
SetItem(d, k, v) == [x \in (DOMAIN d) \cup {k} |-> IF x = k THEN v ELSE d[x]]

\* Form values a client may post to /login.
Usernames == {"", "user", "User", "admin"}
Passwords == {"", "54321", "5432", "12345"}

\* Uploaded file names, as sequences of characters.
Filenames ==
    { <<>>,                                        \* ""
      <<"p", "n", "g">>,                           \* "png": no dot
      <<"a", ".">>,                                \* "a."
      <<"a", ".", "e", "x", "e">>,                 \* "a.exe"
      <<"a", ".", "j", "p", "g", ".", "e", "x", "e">>,  \* "a.jpg.exe"
      <<"a", ".", "p", "n", "g">>,                 \* "a.png"
      <<"a", ".", "b", ".", "J", "p", "E", "g">> } \* "a.b.JpEg"

\* What an uploaded file holds: whether an image decoder can read it, and how
\* many faces are visible in it.
Contents ==
    { [readable |-> r, faces |-> n] : r \in BOOLEAN, n \in {0, 1, 2} }
        \ { [readable |-> FALSE, faces |-> n] : n \in {1, 2} }

UploadedFiles == { [filename |-> f, content |-> c] : f \in Filenames, c \in Contents }

\* request.files: with or without the field "image".
RequestFiles == {EmptyDict} \cup { [image |-> f] : f \in UploadedFiles }

\* The emotion tags and scores the classifier may report for one face.
Labels == {"happy", "sad"}
Scores == {8734, 100 * 100}
FaceData ==
    { [dominant_emotion |-> l,
       emotion |-> [k \in Labels |-> IF k = l THEN s ELSE 100 * 100 - s]] :
        l \in Labels, s \in Scores }

\* uuid4().hex values and strftime('%Y%m%d_%H%M%S') values.
Uuids == {"u1", "u2"}
Timestamps == {"20240101_120000"}

\* Texts the chat model may answer with.
MoodTexts == {"Tonight's vibe is ..."}

NoTrace ==
    [detect |-> 0, generate |-> 0, result |-> [tag |-> "none"], remove |-> "not_tried"]

----------------------------------------------------------------------------
(* Responses *)

jsonify(body, status) == [status |-> status, kind |-> "json", body |-> body]

redirect(endpoint) == [status |-> 302, kind |-> "redirect", body |-> [location |-> endpoint]]

render_template(name, context) ==
    [status |-> 200, kind |-> "template", body |-> SetItem(context, "template", name)]

Request(endpoint, method, form, files) ==
    [endpoint |-> endpoint, method |-> method, form |-> form, files |-> files]

----------------------------------------------------------------------------
(* allowed_file *)

ALLOWED_EXTENSIONS ==
    { <<"p", "n", "g">>, <<"j", "p", "g">>, <<"j", "p", "e", "g">>,
      <<"g", "i", "f">>, <<"b", "m", "p">> }

\* str.lower on one character (the upper-case letters the inputs use).
LowerChar(c) ==
    CASE c = "J" -> "j"
      [] c = "P" -> "p"
      [] c = "E" -> "e"
      [] c = "G" -> "g"
      [] OTHER -> c

lower(s) == [i \in 1..Len(s) |-> LowerChar(s[i])]

\* '.' in filename
HasDot(filename) == \E i \in 1..Len(filename) : filename[i] = "."

\* filename.rsplit('.', 1)[1]: what follows the last dot.
rsplit_last(filename) ==
    LET last == CHOOSE i \in 1..Len(filename) :
                    /\ filename[i] = "."
                    /\ \A j \in (i + 1)..Len(filename) : filename[j] # "."
    IN  SubSeq(filename, last + 1, Len(filename))

\* An allowed_file that forgets the test for a dot: "png" passes.
allowed_file_without_dot_test(filename) ==
    IF HasDot(filename) THEN lower(rsplit_last(filename)) \in ALLOWED_EXTENSIONS
    ELSE lower(filename) \in ALLOWED_EXTENSIONS

allowed_file(filename) ==
    HasDot(filename) /\ lower(rsplit_last(filename)) \in ALLOWED_EXTENSIONS

----------------------------------------------------------------------------
(* The state a handler leaves behind *)

Authenticated == "username" \in DOMAIN session

\* session.get('emotion_history', [])
SessionHistory(s) ==
    IF "emotion_history" \in DOMAIN s THEN s["emotion_history"] ELSE <<>>

\* What the handler leaves: the request, its response, the session, the temp
\* directory, the handler's temp_path, and the adapter calls it made.
Respond(rq, rs, s, fs, t, c, ap) ==
    /\ req' = rq
    /\ resp' = rs
    /\ session' = s
    /\ tempFiles' = fs
    /\ temp_path' = t
    /\ trace' = c
    /\ appended' = ap
    /\ cleared' = IF rq.endpoint = "clear_history" /\ rs.status = 200
                  THEN Len(SessionHistory(session))
                  ELSE IF rq.endpoint = "get_history" THEN cleared ELSE -1

Init ==
    /\ session = EmptyDict
    /\ tempFiles = {}
    /\ req = Request("start", "GET", EmptyDict, EmptyDict)
    /\ resp = render_template("login.html", EmptyDict)
    /\ temp_path = None
    /\ trace = NoTrace
    /\ appended = <<>>
    /\ cleared = -1

\* GET /
home ==
    LET rq == Request("home", "GET", EmptyDict, EmptyDict) IN
    Respond(rq,
            IF Authenticated THEN redirect("index") ELSE redirect("login"),
            session, tempFiles, None, NoTrace, appended)

\* request.form.get(key, default)
FormGet(form, key, default) == IF key \in DOMAIN form THEN form[key] ELSE default

\* The forms a client may post: each field present or not.
Forms ==
    { f \in UNION { [d -> Usernames \cup Passwords] : d \in SUBSET {"username", "password"} } :
        /\ "username" \in DOMAIN f => f["username"] \in Usernames
        /\ "password" \in DOMAIN f => f["password"] \in Passwords }

\* A login that forgets to test the password.
ValidCredentialsAnyPassword(username, password) == username = "user"

\* The credential test of login.
ValidCredentials(username, password) == username = "user" /\ password = "54321"

\* The session a successful login leaves.
LoginSession(s, username) ==
    SetItem(SetItem(s, "username", username), "emotion_history", <<>>)

\* GET /login
login_get ==
    Respond(Request("login", "GET", EmptyDict, EmptyDict),
            render_template("login.html", EmptyDict),
            session, tempFiles, None, NoTrace, appended)

\* POST /login
login_post ==
    \E form \in Forms :
        LET rq == Request("login", "POST", form, EmptyDict)
            username == FormGet(form, "username", "")
            password == FormGet(form, "password", "")
        IN  IF ValidCredentials(username, password)
            THEN Respond(rq, redirect("index"), LoginSession(session, username),
                         tempFiles, None, NoTrace, <<>>)
            ELSE Respond(rq,
                         render_template("login.html",
                                         [error |-> "Invalid username or password"]),
                         session, tempFiles, None, NoTrace, appended)

\* GET /logout: session.clear()
logout ==
    Respond(Request("logout", "GET", EmptyDict, EmptyDict),
            redirect("login"), EmptyDict, tempFiles, None, NoTrace, <<>>)

\* A page view behind the session check (index, dashboards).
PageView(endpoint, template) ==
    Respond(Request(endpoint, "GET", EmptyDict, EmptyDict),
            IF ~Authenticated THEN redirect("login")
            ELSE render_template(template, EmptyDict),
            session, tempFiles, None, NoTrace, appended)

\* GET /index
index == PageView("index", "index.html")

\* GET /dashboards
dashboards == PageView("dashboards", "dashboards.html")

\* A get_history without its session check.
GetHistoryResponseUnchecked(s) == jsonify([history |-> SessionHistory(s)], 200)

\* What get_history answers in session s.
GetHistoryResponse(s) ==
    IF "username" \notin DOMAIN s
    THEN jsonify([message |-> "Not authenticated"], 401)
    ELSE jsonify([history |-> SessionHistory(s)], 200)

\* GET /api/get-history
get_history ==
    Respond(Request("get_history", "GET", EmptyDict, EmptyDict),
            GetHistoryResponse(session),
            session, tempFiles, None, NoTrace, appended)

\* A clear_history that marks the session modified but assigns nothing.
ClearedSessionUntouched(s) == s

\* The session clear_history leaves.
ClearedSession(s) == SetItem(s, "emotion_history", <<>>)

\* POST /api/clear-history
clear_history ==
    LET rq == Request("clear_history", "POST", EmptyDict, EmptyDict) IN
    IF ~Authenticated
    THEN Respond(rq, jsonify([message |-> "Not authenticated"], 401),
                 session, tempFiles, None, NoTrace, appended)
    ELSE Respond(rq, jsonify([message |-> "History cleared"], 200),
                 ClearedSession(session), tempFiles, None, NoTrace, <<>>)

----------------------------------------------------------------------------
(* helpers.py *)

\* DeepFace.analyze(img_path, actions=['emotion'], enforce_detection=False):
\* it raises, or returns one entry per detected face.  With enforce_detection
\* off, an image in which no face is found is not an error: the whole image is
\* analysed as one face, so the list still holds one entry.
DeepFaceAnalyze(content) ==
    { [raised |-> TRUE, exc |-> "ValueError", results |-> <<>>] }
    \cup
    { [raised |-> FALSE, exc |-> None, results |-> r] :
        r \in IF content.faces = 0
              THEN { <<f>> : f \in FaceData }
              ELSE [1..content.faces -> FaceData] }

\* recognize_emotion(img_path), given what DeepFace.analyze does.  The result
\* is tagged: "None", "raise" (an exception leaves the function) or "dict".
recognize_emotion(img_path, analysis) ==
    IF img_path = None THEN [tag |-> "None"]
    ELSE IF analysis.raised THEN [tag |-> "raise", exc |-> analysis.exc]
    ELSE IF Len(analysis.results) = 0 THEN [tag |-> "raise", exc |-> "IndexError"]
    ELSE LET face_data == analysis.results[1] IN
         [tag |-> "dict",
          label |-> face_data.dominant_emotion,
          confidence |-> face_data.emotion[face_data.dominant_emotion]]

\* f"{confidence:.1f}": the score rounded to tenths of a percent (ties to even),
\* in tenths.  Used for the label drawn on the image and for the prompt.
FormatOneDecimal(confidence) ==
    LET q == confidence \div 10
        r == confidence % 10
    IN  IF r < 5 THEN q
        ELSE IF r > 5 THEN q + 1
        ELSE IF q % 2 = 0 THEN q ELSE q + 1

\* The prompt generate_mood_content sends.
MoodPrompt(emotion_label, confidence) ==
    <<"The detected emotion is ", emotion_label,
      ". Suggest a 3-song playlist that matches it. Start by saying: 'Tonight's vibe is ",
      emotion_label, ". I'm ", FormatOneDecimal(confidence), "% sure about it...">>

\* generate_mood_content(emotion_label, confidence): ollama.chat raises, or
\* answers with some text.
generate_mood_content(emotion_label, confidence) ==
    { [raised |-> TRUE, exc |-> "ConnectionError", content |-> ""] }
    \cup
    { [raised |-> FALSE, exc |-> None, content |-> t] : t \in MoodTexts }

----------------------------------------------------------------------------
(* process_emotion *)

\* float(x) of a number: the same value.
to_float(x) == x

\* An except clause that answers 400.
ServerErrorAsClientError(e) == jsonify([message |-> <<"Error: ", e>>], 400)

\* The except clause: any exception becomes a 500 with its text.
ServerError(e) == jsonify([message |-> <<"Error: ", e>>], 500)

\* An entry that stores the confidence as displayed, rounded to one decimal.
HistoryEntryRounded(emotion_result, now) ==
    [emotion |-> emotion_result.label,
     confidence |-> 10 * FormatOneDecimal(emotion_result.confidence),
     filename |-> <<emotion_result.label, "_", now>>]

\* The entry process_emotion stores for a detection.
HistoryEntry(emotion_result, now) ==
    [emotion |-> emotion_result.label,
     confidence |-> to_float(emotion_result.confidence),
     filename |-> <<emotion_result.label, "_", now>>]

\* An insert at the front instead of an append.
AppendHistoryAtFront(s, entry) ==
    SetItem(s, "emotion_history", <<entry>> \o SessionHistory(s))

\* An assignment of a fresh one-entry list instead of an append.
AppendHistoryOverwrite(s, entry) == SetItem(s, "emotion_history", <<entry>>)

\* session['emotion_history'].append(entry), creating the list when missing.
AppendHistory(s, entry) ==
    SetItem(s, "emotion_history", Append(SessionHistory(s), entry))

\* The body of the 200 response.
SuccessBody(emotion_result, mood_text) ==
    [image |-> "data:image/jpeg;base64,...",
     emotion |-> emotion_result.label,
     confidence |-> to_float(emotion_result.confidence),
     mood_text |-> mood_text]

\* A cleanup that never removes the file.
RemoveTempNever(fs, t, removed) == fs

\* The temp directory after the finally clause: os.remove(temp_path) succeeds
\* (removed) or raises and is only reported.
RemoveTemp(fs, t, removed) == IF removed THEN fs \ {t} ELSE fs

\* The finally clause, then the return.
Finally(rq, rs, s, fs, t, c, ap) ==
    IF t # None /\ t \in fs
    THEN \E removed \in BOOLEAN :
            Respond(rq, rs, s, RemoveTemp(fs, t, removed), t,
                    [c EXCEPT !.remove = IF removed THEN "removed" ELSE "failed"], ap)
    ELSE Respond(rq, rs, s, fs, t, c, ap)

\* From the detection result on (app.py lines 108 to 154).
AfterDetection(rq, file, t, fs, emotion_result) ==
    LET c1 == [NoTrace EXCEPT !.detect = 1, !.result = emotion_result]
        c2 == [c1 EXCEPT !.generate = 1]
    IN
    IF emotion_result.tag = "raise"
    THEN Finally(rq, ServerError(emotion_result.exc), session, fs, t, c1, appended)
    ELSE IF emotion_result.tag = "None"
    THEN Finally(rq, jsonify([message |-> "No face detected in image"], 400),
                 session, fs, t, c1, appended)
    ELSE \E mood \in generate_mood_content(emotion_result.label, emotion_result.confidence) :
        IF mood.raised
        THEN Finally(rq, ServerError(mood.exc), session, fs, t, c2, appended)
        ELSE IF ~file.content.readable      \* cv2.imread returned None
        THEN Finally(rq, jsonify([message |-> "Error reading image"], 500),
                     session, fs, t, c2, appended)
        ELSE \E encoded \in BOOLEAN :       \* drawing and cv2.imencode raise or not
            IF ~encoded
            THEN Finally(rq, ServerError("cv2.error"), session, fs, t, c2, appended)
            ELSE /\ Len(SessionHistory(session)) < MaxHist
                 /\ \E now \in Timestamps :
                        LET history_entry == HistoryEntry(emotion_result, now) IN
                        Finally(rq,
                                jsonify(SuccessBody(emotion_result, mood.content), 200),
                                AppendHistory(session, history_entry),
                                fs, t, c2, Append(appended, history_entry))

\* From the temp file name on (app.py lines 97 to 106).  file.save writes the
\* file, or raises before or after creating it.
Upload(rq, file, t) ==
    \E saved \in {"saved", "failed", "failed_partial"} :
        IF saved = "failed"
        THEN Finally(rq, ServerError("OSError"), session, tempFiles, t, NoTrace, appended)
        ELSE IF saved = "failed_partial"
        THEN Finally(rq, ServerError("OSError"), session, tempFiles \cup {t}, t,
                     NoTrace, appended)
        ELSE \E analysis \in DeepFaceAnalyze(file.content) :
                AfterDetection(rq, file, t, tempFiles \cup {t},
                               recognize_emotion(t, analysis))

\* POST /api/process-emotion
process_emotion ==
    \E files \in RequestFiles :
        LET rq == Request("process_emotion", "POST", EmptyDict, files) IN
        IF "username" \notin DOMAIN session
        THEN Finally(rq, jsonify([message |-> "Not authenticated"], 401),
                     session, tempFiles, None, NoTrace, appended)
        ELSE IF "image" \notin DOMAIN files
        THEN Finally(rq, jsonify([message |-> "No image provided"], 400),
                     session, tempFiles, None, NoTrace, appended)
        ELSE IF files["image"].filename = <<>> \/ ~allowed_file(files["image"].filename)
        THEN Finally(rq, jsonify([message |-> "Invalid file"], 400),
                     session, tempFiles, None, NoTrace, appended)
        ELSE \E t \in Uuids \ tempFiles :     \* a fresh uuid4 name
                Upload(rq, files["image"], t)

----------------------------------------------------------------------------

Next ==
    \/ home
    \/ login_get
    \/ login_post
    \/ logout
    \/ index
    \/ dashboards
    \/ get_history
    \/ clear_history
    \/ process_emotion

Spec == Init /\ [][Next]_vars

----------------------------------------------------------------------------
(* Properties *)

History == SessionHistory(session)

IsLoginPost(r) == r.endpoint = "login" /\ r.method = "POST"

\* The posted pair is exactly ('user', '54321'); a missing field counts as ''.
PostsFixedPair(r) ==
    /\ "username" \in DOMAIN r.form /\ r.form["username"] = "user"
    /\ "password" \in DOMAIN r.form /\ r.form["password"] = "54321"

ErrorView ==
    [status |-> 200, kind |-> "template",
     body |-> [template |-> "login.html", error |-> "Invalid username or password"]]

\* C1 as stated: after every POST to /login, the fixed pair has established a
\* session with an empty history, and any other pair has got the error view
\* and no session exists.
C1_AsStated ==
    IsLoginPost(req) =>
        IF PostsFixedPair(req)
        THEN session = [username |-> "user", emotion_history |-> <<>>]
        ELSE resp = ErrorView /\ session = EmptyDict

\* C1 (amended): a POST to /login with the fixed pair leaves an established
\* session whose history is empty; with any other pair it answers with the
\* error view and leaves the session as it was (none before, none after; an
\* established one stays established with its history).
C1_Login ==
    [][ IsLoginPost(req') =>
            IF PostsFixedPair(req')
            THEN /\ session' = [username |-> "user", emotion_history |-> <<>>]
                 /\ resp' = [status |-> 302, kind |-> "redirect",
                             body |-> [location |-> "index"]]
            ELSE /\ resp' = ErrorView
                 /\ session' = session ]_vars

\* A rejected login in an established session that holds history.
C1_Witness ==
    /\ IsLoginPost(req) /\ ~PostsFixedPair(req)
    /\ "username" \in DOMAIN req.form /\ req.form["username"] = "user"
    /\ resp = ErrorView
    /\ Authenticated /\ Len(History) >= 1

GatedEndpoints ==
    {"logout", "index", "dashboards", "process_emotion", "get_history", "clear_history"}

ApiEndpoints == {"process_emotion", "get_history", "clear_history"}

NotAuthenticatedResponse ==
    [status |-> 401, kind |-> "json", body |-> [message |-> "Not authenticated"]]

RedirectToLogin == [status |-> 302, kind |-> "redirect", body |-> [location |-> "login"]]

\* C2 as stated: a request made without a session to any of the six gated
\* endpoints is answered with HTTP 401.
C2_AsStated ==
    [][ (~Authenticated /\ req'.endpoint \in GatedEndpoints) => resp'.status = 401 ]_vars

\* C2 (amended): a request made without a session to one of the three API
\* endpoints is answered with HTTP 401 and the message, whatever its body, before
\* any other check: no adapter is called, no temp file is named or written and
\* nothing changes.  Without a session /index and /dashboards redirect to the
\* login page, and so does /logout (which tests nothing).
C2_Unauthenticated ==
    [][ ~Authenticated =>
            /\ req'.endpoint \in ApiEndpoints =>
                    /\ resp' = NotAuthenticatedResponse
                    /\ trace' = NoTrace
                    /\ temp_path' = None
                    /\ tempFiles' = tempFiles
                    /\ session' = session
            /\ req'.endpoint \in {"index", "dashboards", "logout"} =>
                    /\ resp' = RedirectToLogin
                    /\ session' = session ]_vars

\* An upload that would pass every other check is refused for want of a session.
C2_Witness ==
    /\ req.endpoint = "process_emotion"
    /\ "image" \in DOMAIN req.files
    /\ req.files["image"].filename = <<"a", ".", "p", "n", "g">>
    /\ req.files["image"].content = [readable |-> TRUE, faces |-> 1]
    /\ resp = NotAuthenticatedResponse
    /\ tempFiles # {}

\* The extension rule in the claim's words: some dot of the name is followed
\* to the end by an allowed extension, in any case.
HasAllowedExtension(f) ==
    \E k \in 1..Len(f) :
        /\ f[k] = "."
        /\ \E e \in { <<"p", "n", "g">>, <<"j", "p", "g">>, <<"j", "p", "e", "g">>,
                       <<"g", "i", "f">>, <<"b", "m", "p">> } :
                /\ Len(e) = Len(f) - k
                /\ \A i \in 1..Len(e) :
                        f[k + i] = e[i] \/ <<f[k + i], e[i]>> \in
                            {<<"P", "p">>, <<"N", "n">>, <<"G", "g">>, <<"J", "j">>,
                             <<"E", "e">>, <<"I", "i">>, <<"F", "f">>, <<"B", "b">>,
                             <<"M", "m">>}

\* The uploaded names the claim is about.
RefusedNames == { f \in Filenames : ~HasAllowedExtension(f) }

\* C3: an authenticated upload whose file name is empty or has no allowed
\* extension is answered with HTTP 400; the detection adapter is not invoked, no
\* temp file is named or written, and the session (its history) is unchanged.
C3_InvalidFile ==
    [][ ( /\ Authenticated
          /\ req'.endpoint = "process_emotion"
          /\ "image" \in DOMAIN req'.files
          /\ req'.files["image"].filename \in RefusedNames )
        => /\ resp'.status = 400
           /\ trace'.detect = 0
           /\ temp_path' = None
           /\ tempFiles' = tempFiles
           /\ session' = session ]_vars

\* "a.jpg.exe" is refused in a session that holds history.
C3_Witness ==
    /\ Authenticated /\ Len(History) >= 1
    /\ req.endpoint = "process_emotion"
    /\ "image" \in DOMAIN req.files
    /\ req.files["image"].filename = <<"a", ".", "j", "p", "g", ".", "e", "x", "e">>
    /\ resp = [status |-> 400, kind |-> "json", body |-> [message |-> "Invalid file"]]


IsProcess(r) == r.endpoint = "process_emotion"

HasImage(r) == "image" \in DOMAIN r.files

Last(h) == h[Len(h)]

\* The score rounded to one decimal place, in hundredths of a percent.
Rounded(score) ==
    LET q == score \div 10
        r == score % 10
    IN  10 * (IF r < 5 \/ (r = 5 /\ q % 2 = 0) THEN q ELSE q + 1)

\* C4 as stated: a 200 response appends exactly one entry, whose emotion is the
\* detection label and whose confidence is the rounded detection confidence,
\* equal to the confidence in the response and within [0, 100].
C4_AsStated ==
    [][ (IsProcess(req') /\ resp'.status = 200) =>
            /\ trace'.result.tag = "dict"
            /\ SessionHistory(session') =
                   Append(SessionHistory(session), Last(SessionHistory(session')))
            /\ LET e == Last(SessionHistory(session')) IN
                /\ e.emotion = trace'.result.label
                /\ e.confidence = Rounded(trace'.result.confidence)
                /\ e.confidence = resp'.body.confidence
                /\ e.confidence >= 0 /\ e.confidence <= 100 * 100 ]_vars

\* C4 (amended): a 200 response appends exactly one entry at the end of the
\* history; its emotion is the detection label (also the emotion in the
\* response) and its confidence is the detection confidence as detected, not
\* rounded, equal to the confidence in the response and within [0, 100].
C4_SuccessAppends ==
    [][ (IsProcess(req') /\ resp'.status = 200) =>
            /\ trace'.result.tag = "dict"
            /\ SessionHistory(session') =
                   Append(SessionHistory(session), Last(SessionHistory(session')))
            /\ DOMAIN session' = DOMAIN session
            /\ session'["username"] = session["username"]
            /\ LET e == Last(SessionHistory(session')) IN
                /\ e.emotion = trace'.result.label
                /\ e.emotion = resp'.body.emotion
                /\ e.confidence = trace'.result.confidence
                /\ e.confidence = resp'.body.confidence
                /\ e.confidence >= 0 /\ e.confidence <= 100 * 100 ]_vars

\* A second detection, with a score that rounding would change, is recorded.
C4_Witness ==
    /\ IsProcess(req) /\ resp.status = 200
    /\ Len(History) = 2
    /\ trace.result.confidence = 8734
    /\ Last(History).confidence = 8734
    /\ Last(History).emotion = "sad" /\ History[1].emotion = "happy"

\* C5: for a validated upload in which no face is visible, once detection has
\* run without raising, the response is HTTP 400 with the no-face message, the
\* text-generation adapter is not called and the history is unchanged.
C5_NoFace ==
    [][ ( /\ Authenticated
          /\ IsProcess(req') /\ HasImage(req')
          /\ req'.files["image"].content = [readable |-> TRUE, faces |-> 0]
          /\ trace'.detect = 1 /\ trace'.result.tag # "raise" )
        => /\ resp' = [status |-> 400, kind |-> "json",
                       body |-> [message |-> "No face detected in image"]]
           /\ trace'.generate = 0
           /\ session' = session ]_vars

\* C6 as stated: when process_emotion has named and written a temp file, the
\* file is gone when the handler returns, also when its removal failed.
C6_AsStated ==
    (IsProcess(req) /\ temp_path # None) => temp_path \notin tempFiles

\* C6 (amended): when process_emotion has named a temp file, the file is gone
\* when the handler returns on every exit path on which os.remove does not
\* fail; when os.remove fails the file stays and the response is the one the
\* exit path gives anyway.  No request leaves any other file behind.
C6_TempFileRemoved ==
    /\ (IsProcess(req) /\ temp_path # None /\ trace.remove # "failed")
            => temp_path \notin tempFiles
    /\ trace.remove = "failed" => (temp_path \in tempFiles /\ resp.status \in {200, 500})
    /\ trace.remove = "not_tried" /\ temp_path # None => resp.status = 500

\* An exception after the upload was written: the file is removed all the same.
C6_Witness ==
    /\ IsProcess(req) /\ temp_path # None
    /\ resp.status = 500 /\ trace.generate = 1
    /\ trace.remove = "removed"
    /\ tempFiles = {}

\* C7: get-history answers with exactly the entries appended by the successful
\* detections since the last login or clear-history, in the order appended.
C7_HistoryInOrder ==
    (req.endpoint = "get_history" /\ Authenticated) =>
        /\ resp.status = 200 /\ resp.kind = "json"
        /\ resp.body = [history |-> appended]

\* Two detections after login, then get-history: two entries in submission order.
C7_Witness ==
    /\ req.endpoint = "get_history"
    /\ resp.status = 200
    /\ Len(resp.body.history) = 2
    /\ resp.body.history[1].emotion = "sad"
    /\ resp.body.history[2].emotion = "happy"

\* C8: clear-history in an established session reports success and keeps the
\* session established, and a get-history that follows it (with nothing but
\* get-history requests in between) answers with the empty sequence.
C8_ClearThenGet ==
    /\ (req.endpoint = "clear_history" /\ cleared >= 0) =>
            /\ resp = [status |-> 200, kind |-> "json",
                       body |-> [message |-> "History cleared"]]
            /\ session = [username |-> "user", emotion_history |-> <<>>]
    /\ (req.endpoint = "get_history" /\ cleared >= 0) =>
            /\ resp = [status |-> 200, kind |-> "json", body |-> [history |-> <<>>]]
            /\ "username" \in DOMAIN session
    /\ (req.endpoint = "clear_history" /\ Authenticated) => cleared >= 0

\* get-history right after a clear-history that dropped two entries.
C8_Witness ==
    /\ req.endpoint = "get_history"
    /\ cleared = 2
    /\ resp.body = [history |-> <<>>]

\* One step changes the history by nothing, or by one entry appended at the end.
KeepsOrAppends(h, g) ==
    \/ g = h
    \/ Len(g) = Len(h) + 1 /\ SubSeq(g, 1, Len(h)) = h

\* C9 as stated: while the session stays established, a step leaves the
\* history alone or appends one entry, or it is clear-history emptying it.
C9_AsStated ==
    [][ (Authenticated /\ "username" \in DOMAIN session') =>
            \/ KeepsOrAppends(SessionHistory(session), SessionHistory(session'))
            \/ req'.endpoint = "clear_history" /\ SessionHistory(session') = <<>> ]_vars

\* C9 (amended): while the session stays established, a step leaves the
\* history alone or appends one entry (only a 200 from process-emotion appends),
\* or it is clear-history or a successful POST to /login emptying it.
C9_AppendOnly ==
    [][ (Authenticated /\ "username" \in DOMAIN session') =>
            \/ SessionHistory(session') = SessionHistory(session)
            \/ /\ IsProcess(req') /\ resp'.status = 200
               /\ KeepsOrAppends(SessionHistory(session), SessionHistory(session'))
            \/ req'.endpoint = "clear_history" /\ SessionHistory(session') = <<>>
            \/ /\ IsLoginPost(req') /\ PostsFixedPair(req')
               /\ SessionHistory(session') = <<>> ]_vars

\* A process-emotion that failed after detection left a two-entry history alone.
C9_Witness ==
    /\ Authenticated /\ Len(History) = 2
    /\ History[1] # History[2]
    /\ IsProcess(req) /\ resp.status = 500 /\ trace.detect = 1

ValidUpload(r) ==
    /\ HasImage(r)
    /\ r.files["image"].filename \notin RefusedNames

====
